---- MODULE Spec2Model ----
(***************************************************************************)
(* Blog content pipeline of robotvacuum22.                                 *)
(*                                                                         *)
(*   src/src/utils/markdown.ts   getAllPosts, getPostBySlug                *)
(*   src/unnamed/part_000        HtmlUploader (handleFileSelect,           *)
(*                               handleDeploy, the rendered form)          *)
(*                                                                         *)
(* Text is a sequence of symbols: one-character strings, plus the single   *)
(* symbol "<script>" that stands for any active content.  Time is an       *)
(* integer instant; an ISO timestamp is the pair <<day, tick of the day>>. *)
(***************************************************************************)
EXTENDS Integers, Sequences, FiniteSets, TLC

VARIABLES
    now,          \* the wall clock, an instant
    file,         \* useState: the selected file, or NoFile
    markdown,     \* useState: the working markdown body
    metadata,     \* useState: title, slug, date, featuredImage, excerpt
    error,        \* useState: the user-visible error, or Null
    isDeploying,  \* useState: a submission is outstanding
    rendered,     \* the last committed render: what the form shows and the handlers close over
    readers,      \* the FileReaders whose read has not completed yet, in creation order
    inflight,     \* the insert calls whose continuation has not run yet
    store,        \* the rows of the remote blog_posts table
    location,     \* the route navigate() last went to, or Null
    docs,         \* the local markdown documents, in enumeration order
    result,       \* what the last read operation returned to its consumer
    event         \* the handler that ran last

vars == <<now, file, markdown, metadata, error, isDeploying, rendered, readers,
          inflight, store, location, docs, result, event>>

----------------------------------------------------------------------------
(* Bounds of the model *)

MaxTime == 3
MaxReaders == 2
MaxInflight == 2
MaxRows == 2
MaxDocs == 2

(* Granularity of the model's clock: instants per calendar day *)
TicksPerDay == 2

(* Program constants *)
ExcerptMax == 200

\* null and undefined, of a text-valued field
Null == <<"null">>
\* String.prototype.match found nothing
NoMatch == <<"nomatch">>
\* error === null
NoError == "null"
\* file === null
NoFile == [name |-> <<>>, type |-> "none", html |-> <<>>]

InvalidFileMsg == "Please select a valid HTML file"
RequiredMsg == "Title and content are required"
DeployFailedMsg == "Failed to deploy blog post"

----------------------------------------------------------------------------
(* Text *)

Script == "<script>"

Min(a, b) == IF a < b THEN a ELSE b

IsSpace(c) == c \in {" ", "\n"}

LowerChar(c) ==
    CASE c = "A" -> "a"
      [] c = "B" -> "b"
      [] c = "H" -> "h"
      [] c = "T" -> "t"
      [] c = "M" -> "m"
      [] c = "L" -> "l"
      [] OTHER -> c

ToLowerCase(t) == [i \in 1..Len(t) |-> LowerChar(t[i])]

EndsWith(t, suffix) ==
    /\ Len(t) >= Len(suffix)
    /\ SubSeq(t, Len(t) - Len(suffix) + 1, Len(t)) = suffix

\* String.prototype.slice(0, n)
Slice(t, n) == SubSeq(t, 1, Min(n, Len(t)))

\* String.prototype.trim
Trim(t) ==
    LET inked == {i \in 1..Len(t) : ~IsSpace(t[i])}
    IN  IF inked = {} THEN <<>>
        ELSE LET lo == CHOOSE i \in inked : \A j \in inked : i <= j
                 hi == CHOOSE i \in inked : \A j \in inked : j <= i
             IN  SubSeq(t, lo, hi)

RECURSIVE DropSpaces(_)
DropSpaces(t) ==
    IF t # <<>> /\ IsSpace(Head(t)) THEN DropSpaces(Tail(t)) ELSE t

RECURSIVE CollapseSpaces(_)
CollapseSpaces(t) ==
    IF t = <<>> THEN <<>>
    ELSE IF IsSpace(Head(t)) THEN <<"-">> \o CollapseSpaces(DropSpaces(t))
    ELSE <<Head(t)>> \o CollapseSpaces(Tail(t))

SlugKeeps(c) == c \notin {"#", "[", "]", "<", ">", Script}

\* slugify(string) with the default options: the replacement character counts
\* as a space, characters outside the allowed class are removed, the result
\* is trimmed and every run of whitespace becomes one "-".
Slugify(t) ==
    LET spaced == [i \in 1..Len(t) |-> IF t[i] = "-" THEN " " ELSE t[i]]
    IN  CollapseSpaces(Trim(SelectSeq(spaced, SlugKeeps)))

LineStarts(t) == {i \in 1..Len(t) : i = 1 \/ t[i - 1] = "\n"}

\* the last index of the line that holds index k
LineEnd(t, k) ==
    LET stops == {j \in k..Len(t) : t[j] = "\n"}
    IN  IF stops = {} THEN Len(t)
        ELSE (CHOOSE j \in stops : \A x \in stops : j <= x) - 1

\* markdownContent.match(/^#\s*(.+)$/m): the capture group, or NoMatch.
\* At a line start holding "#", \s* is greedy (it may cross line ends) and
\* (.+) takes the rest of the line it starts on.
TitleCaptureAt(t, i) ==
    LET ks == {k \in (i + 1)..Len(t) :
                  /\ \A j \in (i + 1)..(k - 1) : IsSpace(t[j])
                  /\ t[k] # "\n"}
    IN  IF t[i] # "#" \/ ks = {} THEN NoMatch
        ELSE LET k == CHOOSE x \in ks : \A y \in ks : y <= x
             IN  SubSeq(t, k, LineEnd(t, k))

TitleMatch(t) ==
    LET hits == {i \in LineStarts(t) : TitleCaptureAt(t, i) # NoMatch}
    IN  IF hits = {} THEN NoMatch
        ELSE TitleCaptureAt(t, CHOOSE i \in hits : \A j \in hits : i <= j)

\* markdownContent.match(/^[^#\n]+/m): the match, or NoMatch
ExcerptMatch(t) ==
    LET hits == {i \in LineStarts(t) : t[i] \notin {"#", "\n"}}
    IN  IF hits = {} THEN NoMatch
        ELSE LET i == CHOOSE x \in hits : \A y \in hits : x <= y
                 ends == {e \in i..Len(t) : \A j \in i..e : t[j] \notin {"#", "\n"}}
             IN  SubSeq(t, i, CHOOSE e \in ends : \A y \in ends : y <= e)

----------------------------------------------------------------------------
(* Time *)

\* new Date().toISOString(): <<calendar day, tick within the day>>
ToISOString(t) == <<t \div TicksPerDay, t % TicksPerDay>>

\* iso.split('T')[0]: the calendar date of a timestamp
DatePart(iso) == iso[1]

\* new Date(date).getTime() of a calendar date
DateTime(date) == date * TicksPerDay

\* the instant of a timestamp
StampTime(iso) == iso[1] * TicksPerDay + iso[2]

----------------------------------------------------------------------------
(* HTML to markdown *)

H1(text) == [tag |-> "h1", text |-> text]
H2(text) == [tag |-> "h2", text |-> text]
P(text) == [tag |-> "p", text |-> text]
Img(alt, src, title) == [tag |-> "img", text |-> alt, src |-> src, title |-> title]

\* the 'images' rule added to the turndown service
ImageRule(node) ==
    LET title == IF node.title # <<>>
                 THEN <<" ", "\"">> \o node.title \o <<"\"">>
                 ELSE <<>>
    IN  <<"!", "[">> \o node.text \o <<"]", "(">> \o node.src \o title \o <<")">>

\* one block of turndown's output (headingStyle atx)
Block(node) ==
    CASE node.tag = "h1" -> <<"#", " ">> \o node.text
      [] node.tag = "h2" -> <<"#", "#", " ">> \o node.text
      [] node.tag = "img" -> ImageRule(node)
      [] OTHER -> node.text

\* turndownService.turndown(htmlContent): the blocks, one blank line apart
RECURSIVE Turndown(_)
Turndown(html) ==
    IF html = <<>> THEN <<>>
    ELSE IF Len(html) = 1 THEN Block(html[1])
    ELSE Block(html[1]) \o <<"\n", "\n">> \o Turndown(Tail(html))

----------------------------------------------------------------------------
(* Inputs of the uploader *)

FileA == [name |-> <<"a", ".", "h", "t", "m", "l">>, type |-> "text/html",
          html |-> <<H1(<<"H", "i">>), P(<<"y", "o">>)>>]
FileB == [name |-> <<"B", ".", "H", "T", "M", "L">>, type |-> "",
          html |-> <<Img(<<"a">>, <<"u">>, <<>>), P(<<"x">>)>>]
FileC == [name |-> <<"c", ".", "t", "x", "t">>, type |-> "text/plain",
          html |-> <<P(<<"x">>)>>]

Files == {FileA, FileB, FileC}

\* the files picked in the sessions that go on to deploy
DraftFiles == {FileA, FileC}

\* what the user may type into the title field and into the body field
TypedTitles == {<<>>, <<"A", " ", "b">>}
TypedBodies == {<<>>, <<"x", Script>>}

\* what the remote store may answer to a rejected insert
DuplicateMsg == "duplicate key value violates unique constraint"
NetworkMsgs == {"TypeError: Failed to fetch", ""}

\* the { data, error } an insert call resolves with, once it has
Pending == [settled |-> FALSE, failed |-> FALSE, message |-> ""]
Inserted == [settled |-> TRUE, failed |-> FALSE, message |-> ""]
Rejected(message) == [settled |-> TRUE, failed |-> TRUE, message |-> message]

----------------------------------------------------------------------------
(* HtmlUploader *)

\* useState initial values
InitialMetadata(t) ==
    [title |-> <<>>, slug |-> <<>>, date |-> DatePart(ToISOString(t)),
     featuredImage |-> <<>>, excerpt |-> <<>>]

\* what a render commits: the values the form shows and the handlers read
Snapshot == [markdown |-> markdown, metadata |-> metadata, isDeploying |-> isDeploying]

\* the form is rendered only when there is a markdown body
FormShown(view) == view.markdown # <<>>

\* the button with isDeploying left out of disabled
ButtonDisabledWhenInvalid(view) ==
    view.metadata.title = <<>> \/ view.markdown = <<>>

\* disabled={!metadata.title || !markdown || isDeploying}
ButtonDisabled(view) ==
    view.metadata.title = <<>> \/ view.markdown = <<>> \/ view.isDeploying

\* the file type validation of handleFileSelect
IsHtmlFile(f) ==
    ~(f.type # "text/html" /\ ~EndsWith(ToLowerCase(f.name), <<".", "h", "t", "m", "l">>))

\* reader.onload also setting the date of the draft to the day of the load
ExtractMetadataDated(prev, md) ==
    LET titleMatch == TitleMatch(md)
        excerptMatch == ExcerptMatch(md)
    IN  [prev EXCEPT
            !.title = IF titleMatch # NoMatch THEN Trim(titleMatch) ELSE <<>>,
            !.slug = IF titleMatch # NoMatch THEN Slugify(ToLowerCase(titleMatch)) ELSE <<>>,
            !.date = DatePart(ToISOString(now)),
            !.excerpt = IF excerptMatch # NoMatch
                        THEN Slice(Trim(excerptMatch), ExcerptMax) ELSE <<>>]

\* the metadata update of reader.onload
ExtractMetadata(prev, md) ==
    LET titleMatch == TitleMatch(md)
        excerptMatch == ExcerptMatch(md)
    IN  [prev EXCEPT
            !.title = IF titleMatch # NoMatch THEN Trim(titleMatch) ELSE <<>>,
            !.slug = IF titleMatch # NoMatch THEN Slugify(ToLowerCase(titleMatch)) ELSE <<>>,
            !.excerpt = IF excerptMatch # NoMatch
                        THEN Slice(Trim(excerptMatch), ExcerptMax) ELSE <<>>]

\* the title field's onChange update
RetitleMetadata(prev, t) ==
    [prev EXCEPT !.title = t, !.slug = Slugify(ToLowerCase(t))]

\* the validation with the title test left out
DeployRejectsEmptyBody(view) == view.markdown = <<>>

\* the validation of handleDeploy: !metadata.title || !markdown throws
DeployRejects(view) == view.metadata.title = <<>> \/ view.markdown = <<>>

\* the payload handleDeploy builds
Payload(meta, md, t) ==
    [slug |-> Slugify(ToLowerCase(meta.title)),
     title |-> meta.title,
     date |-> meta.date,
     excerpt |-> IF meta.excerpt # <<>> THEN meta.excerpt ELSE Slice(md, ExcerptMax),
     featured_image |-> IF meta.featuredImage # <<>> THEN meta.featuredImage ELSE Null,
     content |-> md,
     created_at |-> ToISOString(t)]

\* the catch block showing its own text whatever the store said
SurfacedErrorGeneric(message) == DeployFailedMsg

\* setError(err.message || 'Failed to deploy blog post')
SurfacedError(message) == IF message # "" THEN message ELSE DeployFailedMsg

Remove(seq, i) == SubSeq(seq, 1, i - 1) \o SubSeq(seq, i + 1, Len(seq))

\* the handler that ran last, with the file it was given
Ran(op, f) == [op |-> op, file |-> f]
Other == Ran("other", NoFile)

NoResult == [op |-> "none"]

Init ==
    /\ now = 0
    /\ file = NoFile
    /\ markdown = <<>>
    /\ metadata = InitialMetadata(now)
    /\ error = NoError
    /\ isDeploying = FALSE
    /\ rendered = Snapshot
    /\ readers = <<>>
    /\ inflight = <<>>
    /\ store = <<>>
    /\ location = Null
    /\ docs = <<>>
    /\ result = NoResult
    /\ event = Other

\* time passes
Tick ==
    /\ now < MaxTime
    /\ now' = now + 1
    /\ event' = Other
    /\ UNCHANGED <<file, markdown, metadata, error, isDeploying, rendered, readers,
                   inflight, store, location, docs, result>>

\* handleFileSelect with setFile called before the validation
HandleFileSelectEager(selectedFile) ==
    /\ event' = Ran("handleFileSelect", selectedFile)
    /\ file' = selectedFile
    /\ IF ~IsHtmlFile(selectedFile)
       THEN /\ error' = InvalidFileMsg
            /\ UNCHANGED readers
       ELSE /\ Len(readers) < MaxReaders
            /\ error' = NoError
            /\ readers' = Append(readers, selectedFile)
    /\ UNCHANGED <<now, markdown, metadata, isDeploying, rendered, inflight, store,
                   location, docs, result>>

\* handleFileSelect(selectedFile), called by the file input's onChange
HandleFileSelect(selectedFile) ==
    /\ event' = Ran("handleFileSelect", selectedFile)
    /\ IF ~IsHtmlFile(selectedFile)
       THEN /\ error' = InvalidFileMsg
            /\ UNCHANGED <<file, readers>>
       ELSE /\ Len(readers) < MaxReaders
            /\ file' = selectedFile
            /\ error' = NoError
            /\ readers' = Append(readers, selectedFile)
    /\ UNCHANGED <<now, markdown, metadata, isDeploying, rendered, inflight, store,
                   location, docs, result>>

\* the user picks any file
HandleFileChange == \E f \in Files : HandleFileSelect(f)

\* the user picks the file of the draft to deploy
ChooseDraftFile == \E f \in DraftFiles : HandleFileSelect(f)

\* reader.onload of the i-th reader still reading; the state updates are
\* queued outside a user event, so the render that shows them comes later
ReaderOnload ==
    \E i \in 1..Len(readers) :
        LET markdownContent == Turndown(readers[i].html)
        IN  /\ markdown' = markdownContent
            /\ metadata' = ExtractMetadata(metadata, markdownContent)
            /\ readers' = Remove(readers, i)
            /\ event' = Other
            /\ UNCHANGED <<now, file, error, isDeploying, rendered, inflight, store,
                           location, docs, result>>

\* a render scheduled by updates made outside a user event commits
Render ==
    /\ rendered # Snapshot
    /\ rendered' = Snapshot
    /\ event' = Other
    /\ UNCHANGED <<now, file, markdown, metadata, error, isDeploying, readers,
                   inflight, store, location, docs, result>>

\* the title field's onChange; a user event's updates are committed before
\* the next event, on top of what is on screen
EditTitle ==
    \E t \in TypedTitles :
        /\ FormShown(rendered)
        /\ metadata' = RetitleMetadata(metadata, t)
        /\ rendered' = [rendered EXCEPT !.metadata = RetitleMetadata(rendered.metadata, t)]
        /\ event' = Other
        /\ UNCHANGED <<now, file, markdown, error, isDeploying, readers, inflight,
                       store, location, docs, result>>

\* the body field's onChange
EditMarkdown ==
    \E b \in TypedBodies :
        /\ FormShown(rendered)
        /\ markdown' = b
        /\ rendered' = [rendered EXCEPT !.markdown = b]
        /\ event' = Other
        /\ UNCHANGED <<now, file, metadata, error, isDeploying, readers, inflight,
                       store, location, docs, result>>

\* handleDeploy up to its await, run with the values of the render `view`;
\* the click's updates are committed before the next event
HandleDeploy(view) ==
    /\ event' = Ran("handleDeploy", NoFile)
    /\ IF DeployRejects(view)
       THEN /\ error' = RequiredMsg
            /\ isDeploying' = FALSE
            /\ rendered' = [rendered EXCEPT !.isDeploying = FALSE]
            /\ UNCHANGED inflight
       ELSE /\ Len(inflight) < MaxInflight
            /\ error' = NoError
            /\ isDeploying' = TRUE
            /\ rendered' = [rendered EXCEPT !.isDeploying = TRUE]
            /\ inflight' = Append(inflight,
                    [payload |-> Payload(view.metadata, view.markdown, now),
                     response |-> Pending])
    /\ UNCHANGED <<now, file, markdown, metadata, readers, store, location, docs, result>>

\* the Deploy button's onClick: the button must be on screen and enabled
ClickDeploy ==
    /\ FormShown(rendered)
    /\ ~ButtonDisabled(rendered)
    /\ HandleDeploy(rendered)

\* handleDeploy called whatever the button shows
CallDeploy == HandleDeploy(rendered)

HasSlug(rows, slug) == \E k \in 1..Len(rows) : rows[k].slug = slug

\* the remote store handles insert(payload): slugs are unique in blog_posts
StoreInsert ==
    \E i \in 1..Len(inflight) :
        \E answer \in {Inserted, Rejected(DuplicateMsg)} \cup {Rejected(m) : m \in NetworkMsgs} :
            /\ inflight[i].response = Pending
            /\ (answer = Rejected(DuplicateMsg)) => HasSlug(store, inflight[i].payload.slug)
            /\ (answer = Inserted) =>
                   ~HasSlug(store, inflight[i].payload.slug) /\ Len(store) < MaxRows
            /\ store' = IF answer = Inserted THEN Append(store, inflight[i].payload)
                        ELSE store
            /\ inflight' = [inflight EXCEPT ![i].response = answer]
            /\ event' = Other
            /\ UNCHANGED <<now, file, markdown, metadata, error, isDeploying, rendered,
                           readers, location, docs, result>>

\* handleDeploy after its await: throw on error, else navigate; finally
InsertSettled ==
    \E i \in 1..Len(inflight) :
        /\ inflight[i].response.settled
        /\ IF inflight[i].response.failed
           THEN /\ error' = SurfacedError(inflight[i].response.message)
                /\ UNCHANGED location
           ELSE /\ location' = <<"/blog/">> \o inflight[i].payload.slug
                /\ UNCHANGED error
        /\ isDeploying' = FALSE
        /\ inflight' = Remove(inflight, i)
        /\ event' = Other
        /\ UNCHANGED <<now, file, markdown, metadata, rendered, readers, store,
                       docs, result>>

----------------------------------------------------------------------------
(* Content resolution: getAllPosts, getPostBySlug *)

\* marked.parse(body): markdown to HTML; raw HTML in the body passes through
Marked(body) == IF body = <<>> THEN <<>> ELSE <<"<p>">> \o body \o <<"</p>">>

NotActive(c) == c # Script

\* DOMPurify.sanitize(html): active content is stripped
Sanitize(html) == SelectSeq(html, NotActive)

\* a local markdown document: its front matter and its body
Doc(kind, title, date, slug, body) ==
    [kind |-> kind,
     attributes |-> [title |-> title, date |-> date, slug |-> slug, excerpt |-> <<"e">>],
     body |-> body]

DocA == Doc("ok", <<"H", "i">>, 0, <<"h", "i">>, <<"y", "o">>)
DocB == Doc("ok", <<"Y", "o">>, 1, <<"h", "i">>, <<"x", Script>>)
DocC == Doc("ok", <<"Z">>, 1, <<"z">>, <<"x">>)
DocBadHeader == Doc("badHeader", <<>>, 0, <<>>, <<>>)
DocBadBody == Doc("badBody", <<"H", "i">>, 0, <<"h", "i">>, <<"x">>)

Docs == {DocA, DocB, DocC, DocBadHeader, DocBadBody}

DocLists == UNION {[1..n -> Docs] : n \in 0..MaxDocs}

\* the slugs a consumer may ask for
Slugs == {<<"h", "i">>, <<"a", "-", "b">>, <<"z">>}

\* frontMatter(content) throws on a malformed header
FrontMatterThrows(doc) == doc.kind = "badHeader"

\* marked.parse(body) throws
MarkedThrows(doc) == doc.kind = "badBody"

\* { ...attributes, content: DOMPurify.sanitize(marked.parse(body)) }
LocalPost(doc) ==
    [title |-> doc.attributes.title,
     date |-> doc.attributes.date,
     slug |-> doc.attributes.slug,
     excerpt |-> doc.attributes.excerpt,
     featuredImage |-> Null,
     content |-> Sanitize(Marked(doc.body))]

\* the mapping of a remote row to a BlogPost
ToPost(row) ==
    [title |-> row.title,
     date |-> row.date,
     slug |-> row.slug,
     excerpt |-> row.excerpt,
     featuredImage |-> row.featured_image,
     content |-> row.content]

\* the loop without its inner try/catch: one document that throws ends the
\* whole operation in the outer catch, which returns []
ScanAllOrNothing(ds) ==
    IF \E k \in 1..Len(ds) : FrontMatterThrows(ds[k]) \/ MarkedThrows(ds[k])
    THEN <<>>
    ELSE [k \in 1..Len(ds) |-> LocalPost(ds[k])]

\* the loop of getAllPosts over the local documents: a document that throws
\* is logged and skipped
RECURSIVE ScanAll(_)
ScanAll(ds) ==
    IF ds = <<>> THEN <<>>
    ELSE IF FrontMatterThrows(Head(ds)) \/ MarkedThrows(Head(ds)) THEN ScanAll(Tail(ds))
    ELSE <<LocalPost(Head(ds))>> \o ScanAll(Tail(ds))

\* Array.prototype.sort with (a, b) => new Date(b.date) - new Date(a.date):
\* stable, so a post goes after every post that is not older than it
InsertByDate(sorted, post) ==
    LET ahead == {k \in 1..Len(sorted) :
                     DateTime(post.date) - DateTime(sorted[k].date) <= 0}
        at == IF ahead = {} THEN 0 ELSE CHOOSE k \in ahead : \A j \in ahead : j <= k
    IN  SubSeq(sorted, 1, at) \o <<post>> \o SubSeq(sorted, at + 1, Len(sorted))

RECURSIVE SortByDate(_)
SortByDate(posts) ==
    IF posts = <<>> THEN <<>>
    ELSE InsertByDate(SortByDate(SubSeq(posts, 1, Len(posts) - 1)), posts[Len(posts)])

\* select('*').order('created_at', { ascending: false }): every order of the
\* rows in which no row comes before a row created later
OrderedByCreatedAt(rows) ==
    LET n == Len(rows)
        orders == {f \in [1..n -> 1..n] :
                      /\ \A a, b \in 1..n : a # b => f[a] # f[b]
                      /\ \A a, b \in 1..n :
                            a < b => StampTime(rows[f[a]].created_at)
                                        >= StampTime(rows[f[b]].created_at)}
    IN  {[k \in 1..n |-> rows[f[k]]] : f \in orders}

\* what a query resolves with: { data, error }; data is null on an error
QueryFailed == [error |-> "network", data |-> <<>>]
QueryData(rows) == [error |-> "none", data |-> rows]

\* select('*').eq('slug', slug).single(): one row, or an error when none matches
SingleBySlug(rows, slug) ==
    LET hits == SelectSeq(rows, LAMBDA r : r.slug = slug)
    IN  IF Len(hits) = 1 THEN QueryData(hits)
        ELSE [error |-> "PGRST116", data |-> <<>>]

NotFound == [found |-> FALSE]
Found(post) == [found |-> TRUE, post |-> post]

\* the loop of getPostBySlug over the local documents
RECURSIVE FirstLocal(_, _)
FirstLocal(ds, slug) ==
    IF ds = <<>> THEN NotFound
    ELSE IF FrontMatterThrows(Head(ds)) THEN FirstLocal(Tail(ds), slug)
    ELSE IF Head(ds).attributes.slug = slug /\ ~MarkedThrows(Head(ds))
         THEN Found(LocalPost(Head(ds)))
    ELSE FirstLocal(Tail(ds), slug)

\* what getAllPosts returns for a query response
AllPosts(response) ==
    IF Len(response.data) > 0
    THEN [k \in 1..Len(response.data) |-> ToPost(response.data[k])]
    ELSE SortByDate(ScanAll(docs))

\* getPostBySlug answering from the local documents before the remote row
PostBySlugLocalFirst(response, slug) ==
    IF FirstLocal(docs, slug) # NotFound THEN FirstLocal(docs, slug)
    ELSE IF response.data # <<>> THEN Found(ToPost(response.data[1]))
    ELSE NotFound

\* what getPostBySlug returns for a query response
PostBySlug(response, slug) ==
    IF response.data # <<>> THEN Found(ToPost(response.data[1]))
    ELSE FirstLocal(docs, slug)

GetAllPosts ==
    \E response \in {QueryFailed} \cup {QueryData(rows) : rows \in OrderedByCreatedAt(store)} :
        /\ result' = [op |-> "getAllPosts", slug |-> Null, response |-> response,
                      value |-> AllPosts(response)]
        /\ event' = Other
        /\ UNCHANGED <<now, file, markdown, metadata, error, isDeploying, rendered,
                       readers, inflight, store, location, docs>>

GetPostBySlug ==
    \E slug \in Slugs :
        \E response \in {QueryFailed, SingleBySlug(store, slug)} :
            /\ result' = [op |-> "getPostBySlug", slug |-> slug, response |-> response,
                          value |-> PostBySlug(response, slug)]
            /\ event' = Other
            /\ UNCHANGED <<now, file, markdown, metadata, error, isDeploying, rendered,
                           readers, inflight, store, location, docs>>

\* the drafts an uploader session may hold when it deploys: the one loaded
\* from a.html, and that one with title and body typed over
LoadedDraft(openedAt) ==
    [markdown |-> Turndown(FileA.html),
     metadata |-> ExtractMetadata(InitialMetadata(openedAt), Turndown(FileA.html)),
     isDeploying |-> FALSE]

TypedDraft(openedAt) ==
    [markdown |-> <<"x", Script>>,
     metadata |-> RetitleMetadata(LoadedDraft(openedAt).metadata, <<"A", " ", "b">>),
     isDeploying |-> FALSE]

\* handleDeploy of another session of the uploader, opened at some earlier
\* instant, whose insert the store accepts; no two submissions are stamped
\* with the same instant
SessionDeploy ==
    \E openedAt \in 0..now :
        \E view \in {LoadedDraft(openedAt), TypedDraft(openedAt)} :
            LET payload == Payload(view.metadata, view.markdown, now)
            IN  /\ ~DeployRejects(view)
                /\ ~HasSlug(store, payload.slug)
                /\ \A k \in 1..Len(store) : store[k].created_at # payload.created_at
                /\ Len(store) < MaxRows
                /\ store' = Append(store, payload)
                /\ event' = Other
                /\ UNCHANGED <<now, file, markdown, metadata, error, isDeploying,
                               rendered, readers, inflight, location, docs, result>>

\* the site with any local documents, and an empty remote table
InitRead ==
    /\ now = 0
    /\ file = NoFile
    /\ markdown = <<>>
    /\ metadata = InitialMetadata(now)
    /\ error = NoError
    /\ isDeploying = FALSE
    /\ rendered = Snapshot
    /\ readers = <<>>
    /\ inflight = <<>>
    /\ store = <<>>
    /\ location = Null
    /\ docs \in DocLists
    /\ result = NoResult
    /\ event = Other

----------------------------------------------------------------------------
(* Specifications *)

\* a session of the uploader that drafts and deploys through the form
Next ==
    \/ ChooseDraftFile
    \/ ReaderOnload
    \/ Render
    \/ EditTitle
    \/ EditMarkdown
    \/ ClickDeploy
    \/ StoreInsert
    \/ InsertSettled

Spec == Init /\ [][Next]_vars

\* the same session with handleDeploy called as an operation
NextOps ==
    \/ ChooseDraftFile
    \/ ReaderOnload
    \/ Render
    \/ EditTitle
    \/ EditMarkdown
    \/ CallDeploy

SpecOps == Init /\ [][NextOps]_vars

\* a session that selects files while time passes
NextFiles ==
    \/ Tick
    \/ HandleFileChange
    \/ ReaderOnload
    \/ Render

SpecFiles == Init /\ [][NextFiles]_vars

\* consumers read posts while sessions of the uploader deploy
NextRead ==
    \/ SessionDeploy
    \/ GetAllPosts
    \/ GetPostBySlug

SpecRead == InitRead /\ [][NextRead]_vars

\* the same, while time passes
NextStore ==
    \/ Tick
    \/ SessionDeploy
    \/ GetAllPosts
    \/ GetPostBySlug

SpecStore == InitRead /\ [][NextStore]_vars

----------------------------------------------------------------------------
(* Properties *)

\* the posts the last read operation handed to its consumer
Returned ==
    IF result.op = "getAllPosts" THEN {result.value[k] : k \in 1..Len(result.value)}
    ELSE IF result.op = "getPostBySlug" /\ result.value.found THEN {result.value.post}
    ELSE {}

IsSanitized(content) == \A k \in 1..Len(content) : content[k] # Script

\* C1: the list getAllPosts returns is sorted by date, newest first, whether
\* it comes from the remote store or from the local documents.
C1_AllPostsSortedByDate ==
    result.op = "getAllPosts" =>
        \A a, b \in 1..Len(result.value) :
            a < b => DateTime(result.value[a].date) >= DateTime(result.value[b].date)

\* C2: in one session of the uploader that submits through its Deploy button,
\* at most one insert is outstanding at any time.
C2_OneInsertOutstanding == Len(inflight) <= 1

\* an insert is outstanding, and a draft that is otherwise ready to submit
\* shows the button disabled
C2_SecondSubmitBlocked ==
    /\ Len(inflight) = 1
    /\ ~inflight[1].response.settled
    /\ FormShown(rendered)
    /\ rendered.metadata.title # <<>>
    /\ rendered.isDeploying
    /\ ButtonDisabled(rendered)

\* C3: every post returned by getAllPosts or getPostBySlug has a non-empty
\* title, a date, a non-empty slug and sanitized content.
C3_ReturnedPostsWellFormed ==
    \A post \in Returned :
        /\ post.title # <<>>
        /\ post.date \in Nat
        /\ post.slug # <<>>
        /\ IsSanitized(post.content)

\* C4: a call of handleDeploy on a draft whose title or body is empty starts
\* no insert, leaves the draft and the store as they were, and sets the
\* missing-field error.
C4_InvalidDeployRejected ==
    [][(/\ event'.op = "handleDeploy"
        /\ (rendered.metadata.title = <<>> \/ rendered.markdown = <<>>))
       => (/\ inflight' = inflight
           /\ store' = store
           /\ markdown' = markdown
           /\ metadata' = metadata
           /\ error' = RequiredMsg)]_vars

\* handleDeploy has just run on a draft with a body and no title
C4_RejectedEmptyTitle ==
    /\ event.op = "handleDeploy"
    /\ rendered.metadata.title = <<>>
    /\ rendered.markdown # <<>>
    /\ error = RequiredMsg
    /\ inflight = <<>>

C6_FallbackIsLocalScan ==
    (result.op = "getAllPosts" /\ result.response.data = <<>>) =>
        LET value == result.value
            parsed == {i \in 1..Len(docs) : docs[i].kind = "ok"}
        IN  /\ Len(value) = Cardinality(parsed)
            /\ \E f \in [1..Len(value) -> parsed] :
                  /\ \A a, b \in 1..Len(value) : a # b => f[a] # f[b]
                  /\ \A k \in 1..Len(value) :
                        /\ value[k].title = docs[f[k]].attributes.title
                        /\ value[k].date = docs[f[k]].attributes.date
                        /\ value[k].slug = docs[f[k]].attributes.slug
                        /\ value[k].excerpt = docs[f[k]].attributes.excerpt
                        /\ value[k].content = Sanitize(Marked(docs[f[k]].body))
            /\ \A a, b \in 1..Len(value) : a < b => value[a].date >= value[b].date

\* the remote query failed, the first local document does not parse and
\* the second one is returned all the same
C6_SkippedBadDocument ==
    /\ result.op = "getAllPosts"
    /\ result.response.error = "network"
    /\ Len(docs) = 2
    /\ docs[1].kind = "badHeader"
    /\ docs[2].kind = "ok"
    /\ Len(result.value) = 1

\* C7: getPostBySlug returns the remote row when the query found one; else
\* the first local document, in enumeration order, that parses and has the
\* slug asked for; else the not-found value.
C7_BySlugResolution ==
    result.op = "getPostBySlug" =>
        LET value == result.value
            rows == result.response.data
            matches == {i \in 1..Len(docs) :
                           docs[i].kind = "ok" /\ docs[i].attributes.slug = result.slug}
        IN  IF rows # <<>>
            THEN /\ value.found
                 /\ rows[1].slug = result.slug
                 /\ value.post.slug = rows[1].slug
                 /\ value.post.title = rows[1].title
                 /\ value.post.date = rows[1].date
                 /\ value.post.excerpt = rows[1].excerpt
                 /\ value.post.featuredImage = rows[1].featured_image
                 /\ value.post.content = rows[1].content
            ELSE IF matches # {}
            THEN LET first == CHOOSE i \in matches : \A j \in matches : i <= j
                 IN  /\ value.found
                     /\ value.post.slug = result.slug
                     /\ value.post.title = docs[first].attributes.title
                     /\ value.post.date = docs[first].attributes.date
                     /\ value.post.content = Sanitize(Marked(docs[first].body))
            ELSE ~value.found

\* the remote store and a local document could both answer, and the remote
\* row was returned
C7_RemoteWinsOverLocal ==
    /\ result.op = "getPostBySlug"
    /\ result.response.data # <<>>
    /\ \E i \in 1..Len(docs) :
          docs[i].kind = "ok" /\ docs[i].attributes.slug = result.slug
    /\ result.value.found
    /\ result.value.post.content = result.response.data[1].content

\* C8: handleFileSelect on a file whose type is not text/html and whose name
\* does not end in .html sets the invalid-file error and leaves the selected
\* file, the markdown body, the metadata and the reads in flight as they were.
C8_InvalidFileNoChange ==
    [][(/\ event'.op = "handleFileSelect"
        /\ event'.file.type # "text/html"
        /\ ~EndsWith(ToLowerCase(event'.file.name), <<".", "h", "t", "m", "l">>))
       => (/\ error' = InvalidFileMsg
           /\ file' = file
           /\ markdown' = markdown
           /\ metadata' = metadata
           /\ readers' = readers)]_vars

\* c.txt has just been refused while a.html is selected and loaded
C8_RefusedAfterLoad ==
    /\ event = Ran("handleFileSelect", FileC)
    /\ error = InvalidFileMsg
    /\ file = FileA
    /\ markdown = Turndown(FileA.html)
    /\ readers = <<>>

\* C9: once every read has completed, the working draft is the one derived
\* from the file selected last.
C9_DraftFromLastSelected ==
    (readers = <<>> /\ file # NoFile) =>
        /\ markdown = Turndown(file.html)
        /\ metadata = ExtractMetadata(metadata, Turndown(file.html))

\* C10, as stated: when a file is accepted, the date of the draft is the
\* current date at that moment.
C10_DateIsSelectionDate ==
    [][(Len(readers') > Len(readers))
       => metadata'.date = DatePart(ToISOString(now'))]_vars

\* C10, amended: the date of the draft is the date of the instant the
\* uploader was opened (instant 0), whatever is selected and whenever.
C10_DateIsOpeningDate == metadata.date = DatePart(ToISOString(0))

\* a file was selected and loaded on a later day than the date of the draft
C10_LoadedOnLaterDay ==
    /\ file # NoFile
    /\ readers = <<>>
    /\ markdown = Turndown(file.html)
    /\ DatePart(ToISOString(now)) > metadata.date

====
